---- MODULE Spec2Model ----
(***************************************************************************)
(* Model of src/CVtranslatorFINAL.py: parse_cv_content (the section        *)
(* parser) and the part of create_cv_pdf that decides which text is put    *)
(* on the page.                                                            *)
(*                                                                         *)
(* A Python str is modelled as a sequence of one-character strings, so     *)
(* that split, strip, lower, the `in` substring test and the regular       *)
(* expressions are computed character by character.  The character U+2022  *)
(* (the round bullet) is written as the token DOT.                         *)
(* A dict is modelled as the sequence of its entries in insertion order.   *)
(* The field `ord` of an entry is a history annotation (the rank at which  *)
(* the section holding this body was first encountered in the scan; 0 for  *)
(* an entry that was never scanned); no operation reads it.                *)
(***************************************************************************)
EXTENDS Integers, Sequences, FiniteSets, TLC

VARIABLES content, lines, i, sections, current_section, ci, discovered,
          si, page, pc

vars == <<content, lines, i, sections, current_section, ci, discovered,
          si, page, pc>>

----------------------------------------------------------------------------
(* Characters and the str methods the program uses *)

NL == "\n"

DOT == "U+2022"

WS == {" ", "\t", "\r", NL}

UpperChars == <<"A", "B", "C", "D", "E", "F", "G", "H", "I", "J", "K", "L", "M", "N", "O", "P", "Q", "R", "S", "T", "U", "V", "W", "X", "Y", "Z">>

LowerChars == <<"a", "b", "c", "d", "e", "f", "g", "h", "i", "j", "k", "l", "m", "n", "o", "p", "q", "r", "s", "t", "u", "v", "w", "x", "y", "z">>

IsUpper(c) == \E n \in 1..26 : UpperChars[n] = c

IsLower(c) == \E n \in 1..26 : LowerChars[n] = c

LowerChar(c) == IF IsUpper(c) THEN LowerChars[CHOOSE n \in 1..26 : UpperChars[n] = c] ELSE c

UpperChar(c) == IF IsLower(c) THEN UpperChars[CHOOSE n \in 1..26 : LowerChars[n] = c] ELSE c

\* str.lower()
Lower(s) == [n \in 1..Len(s) |-> LowerChar(s[n])]

\* str.upper()
Upper(s) == [n \in 1..Len(s) |-> UpperChar(s[n])]

MinOf(S) == CHOOSE m \in S : \A n \in S : m <= n

MaxOf(S) == CHOOSE m \in S : \A n \in S : m >= n

\* str.strip(chars): drop the leading and trailing characters that are in cs
StripChars(s, cs) ==
    LET keep == {n \in 1..Len(s) : s[n] \notin cs}
    IN  IF keep = {} THEN <<>> ELSE SubSeq(s, MinOf(keep), MaxOf(keep))

\* str.strip()
Strip(s) == StripChars(s, WS)

\* str.lstrip()
LStrip(s) ==
    LET keep == {n \in 1..Len(s) : s[n] \notin WS}
    IN  IF keep = {} THEN <<>> ELSE SubSeq(s, MinOf(keep), Len(s))

\* str.split(c) for a one-character separator
RECURSIVE SplitOn(_, _)
SplitOn(s, c) ==
    LET at == {n \in 1..Len(s) : s[n] = c}
    IN  IF at = {} THEN <<s>>
        ELSE <<SubSeq(s, 1, MinOf(at) - 1)>> \o SplitOn(SubSeq(s, MinOf(at) + 1, Len(s)), c)

\* sep.join(list)
RECURSIVE JoinWith(_, _)
JoinWith(list, sep) ==
    IF Len(list) = 0 THEN <<>>
    ELSE IF Len(list) = 1 THEN list[1]
    ELSE list[1] \o sep \o JoinWith(Tail(list), sep)

JoinNL(list) == JoinWith(list, <<NL>>)

\* needle in hay
Contains(hay, needle) ==
    \E n \in 0..(Len(hay) - Len(needle)) : SubSeq(hay, n + 1, n + Len(needle)) = needle

StartsWith(s, p) == Len(s) >= Len(p) /\ SubSeq(s, 1, Len(p)) = p

EndsWith(s, p) == Len(s) >= Len(p) /\ SubSeq(s, Len(s) - Len(p) + 1, Len(s)) = p

\* list[:n] and list[n:]
Take(list, n) == SubSeq(list, 1, IF Len(list) < n THEN Len(list) ELSE n)

Drop(list, n) == SubSeq(list, n + 1, Len(list))

----------------------------------------------------------------------------
(* The dict `sections` *)

Keys(d) == [n \in 1..Len(d) |-> d[n].k]

Has(d, key) == \E n \in 1..Len(d) : d[n].k = key

IndexOf(d, key) == CHOOSE n \in 1..Len(d) : d[n].k = key

Get(d, key) == d[IndexOf(d, key)].v

\* d[key] = val: in place when the key exists, at the end otherwise
\* (rank is the annotation a new entry gets)
Assign(d, key, val, rank) ==
    IF Has(d, key)
    THEN [d EXCEPT ![IndexOf(d, key)].v = val]
    ELSE Append(d, [k |-> key, v |-> val, ord |-> rank])

\* d.pop(key), the dict that is left
Pop(d, key) == SelectSeq(d, LAMBDA e : e.k # key)

----------------------------------------------------------------------------
(* The section vocabulary *)

K_header == <<"h", "e", "a", "d", "e", "r">>

K_profile == <<"p", "r", "o", "f", "i", "l", "e">>

K_experience == <<"e", "x", "p", "e", "r", "i", "e", "n", "c", "e">>

K_education == <<"e", "d", "u", "c", "a", "t", "i", "o", "n">>

K_skills == <<"s", "k", "i", "l", "l", "s">>

K_languages == <<"l", "a", "n", "g", "u", "a", "g", "e", "s">>

common_sections == <<K_header, K_profile, K_experience, K_education, K_skills, K_languages>>

----------------------------------------------------------------------------
(* parse_cv_content: heading detection *)

\* re ^\s*\*{2}([^*]+)\*{2}\s*$ ; g is group(1)
MatchBold(line) ==
    LET t == Strip(line)
        n == Len(t)
    IN  IF /\ n >= 5
           /\ t[1] = "*" /\ t[2] = "*" /\ t[n - 1] = "*" /\ t[n] = "*"
           /\ \A m \in 3..(n - 2) : t[m] # "*"
        THEN [m |-> TRUE, g |-> SubSeq(t, 3, n - 2)]
        ELSE [m |-> FALSE, g |-> <<>>]

\* variant: the shout-case pattern asks for one character more
MatchUpper_SixOrMore(line) ==
    /\ Len(line) >= 6
    /\ \A n \in 1..Len(line) : IsUpper(line[n]) \/ line[n] \in WS

\* re ^\s*[A-Z\s]{5,}\s*$ ; it has no group
MatchUpper(line) ==
    /\ Len(line) >= 5
    /\ \A n \in 1..Len(line) : IsUpper(line[n]) \/ line[n] \in WS

\* re ^\s*-{3,}\s*([^-]+)\s*-{3,}\s*$ ; g is group(1)
MatchDashed(line) ==
    LET t == Strip(line)
        n == Len(t)
        nondash == {m \in 1..n : t[m] # "-"}
        lo == MinOf(nondash)
        hi == MaxOf(nondash)
        mid == SubSeq(t, lo, hi)
    IN  IF /\ nondash # {}
           /\ lo >= 4
           /\ n - hi >= 3
           /\ \A m \in lo..hi : t[m] # "-"
        THEN [m |-> TRUE, g |-> IF LStrip(mid) = <<>> THEN <<mid[Len(mid)]>> ELSE LStrip(mid)]
        ELSE [m |-> FALSE, g |-> <<>>]

\* the loop over section_patterns: the first pattern that matches decides;
\* match.group(1) raises for the pattern without a group and the except
\* branch takes the line itself.  name = <<>> stands for None and for "".
PatternHeader(line) ==
    IF MatchBold(line).m
    THEN [hdr |-> TRUE, name |-> Lower(Strip(MatchBold(line).g))]
    ELSE IF MatchUpper(line)
    THEN [hdr |-> TRUE, name |-> Lower(Strip(StripChars(line, {"*", " ", "-"})))]
    ELSE IF MatchDashed(line).m
    THEN [hdr |-> TRUE, name |-> Lower(Strip(MatchDashed(line).g))]
    ELSE [hdr |-> FALSE, name |-> <<>>]

\* is_section_header and section_name after the pattern loop and the
\* startswith('**') / endswith('**') test
SectionHeader(line) ==
    IF StartsWith(line, <<"*", "*">>) /\ EndsWith(line, <<"*", "*">>)
    THEN [hdr |-> TRUE, name |-> Lower(Strip(StripChars(line, {"*"})))]
    ELSE PatternHeader(line)

\* variant: a new heading does not create its list
Activate_NoCreate(d, name) == d

\* if current_section not in sections: sections[current_section] = []
Activate(d, name) ==
    IF Has(d, name) THEN d ELSE Append(d, [k |-> name, v |-> <<>>, ord |-> Len(d) + 1])

\* sections[current_section].append(line)
AppendLine(d, key, line) ==
    [d EXCEPT ![IndexOf(d, key)].v = Append(@, line)]

----------------------------------------------------------------------------
(* parse_cv_content: after the scan *)

\* for section in sections: sections[section] = "\n".join(sections[section])
JoinAll(d) == [n \in 1..Len(d) |-> [d[n] EXCEPT !.v = JoinNL(@)]]

\* variant: the lines copied to the header stay in their section
HeaderFallback_KeepLines(d) ==
    LET nonempty == {n \in 1..Len(d) : Strip(d[n].v) # <<>>}
        src == d[MinOf(nonempty)]
    IN  IF Has(d, K_header) /\ Strip(Get(d, K_header)) = <<>> /\ nonempty # {}
        THEN Assign(d, K_header, JoinNL(Take(SplitOn(src.v, NL), 5)), 1)
        ELSE d

\* variant: the lines are taken from the last non-empty section
HeaderFallback_LastSection(d) ==
    LET nonempty == {n \in 1..Len(d) : Strip(d[n].v) # <<>>}
        src == d[MaxOf(nonempty)]
        first_lines == Take(SplitOn(src.v, NL), 5)
        d1 == Assign(d, K_header, JoinNL(first_lines), 1)
    IN  IF Has(d, K_header) /\ Strip(Get(d, K_header)) = <<>> /\ nonempty # {}
        THEN Assign(d1, src.k, JoinNL(Drop(SplitOn(Get(d1, src.k), NL), 5)), src.ord)
        ELSE d

\* the header fallback: the first 5 lines of the first non-empty section
HeaderFallback(d) ==
    LET nonempty == {n \in 1..Len(d) : Strip(d[n].v) # <<>>}
        src == d[MinOf(nonempty)]
        first_lines == Take(SplitOn(src.v, NL), 5)
        d1 == Assign(d, K_header, JoinNL(first_lines), 1)
    IN  IF Has(d, K_header) /\ Strip(Get(d, K_header)) = <<>> /\ nonempty # {}
        THEN Assign(d1, src.k, JoinNL(Drop(SplitOn(Get(d1, src.k), NL), 5)), src.ord)
        ELSE d

\* {k: v for k, v in sections.items() if v.strip()}
CleanUpEmpty(d) == SelectSeq(d, LAMBDA e : Strip(e.v) # <<>>)

\* section in existing_section.lower() or existing_section in section
IsVariant(section, existing_section) ==
    Contains(Lower(existing_section), section) \/ Contains(section, existing_section)

\* variant: a vocabulary key without a variant is not added
EnsureSection_NoPlaceholder(d, section) ==
    LET variants == {n \in 1..Len(d) : IsVariant(section, d[n].k)}
        existing == d[MinOf(variants)]
    IN  IF variants # {} /\ existing.k # section
        THEN Assign(Pop(d, existing.k), section, existing.v, existing.ord)
        ELSE d

\* one iteration of `for section in common_sections`
EnsureSection(d, section) ==
    LET variants == {n \in 1..Len(d) : IsVariant(section, d[n].k)}
        existing == d[MinOf(variants)]
    IN  IF variants # {}
        THEN IF existing.k # section
             THEN Assign(Pop(d, existing.k), section, existing.v, existing.ord)
             ELSE d
        ELSE IF ~Has(d, section)
             THEN Append(d, [k |-> section, v |-> <<>>, ord |-> 0])
             ELSE d

----------------------------------------------------------------------------
(* create_cv_pdf: the text put on the page.  A cell of the page is the record
   of one rendered line: kind, the section key, the index of the paragraph
   block and of the line in it, src (the line as split from the block), line
   (the text held when it is drawn) and cells (the strings handed to
   pdf.cell / pdf.multi_cell for it, in order). *)

max_line_length == 120

Ellipsis == <<".", ".", ".">>

\* variant: only the dash is a bullet marker
IsBullet_DashOnly(line) == StartsWith(line, <<"-">>)

\* line.startswith("-") or line.startswith(DOT)
IsBullet(line) == StartsWith(line, <<"-">>) \/ StartsWith(line, <<DOT>>)

\* if len(line) > max_line_length: line = line[:max_line_length] + "..."
Truncate(line) ==
    IF Len(line) > max_line_length THEN SubSeq(line, 1, max_line_length) \o Ellipsis ELSE line

RECURSIVE Concat(_)
Concat(seqs) == IF Len(seqs) = 0 THEN <<>> ELSE seqs[1] \o Concat(Tail(seqs))

\* re.split(r'\n\s*\n', s): the leftmost match starts at the first newline
\* that is followed by whitespace ending in a newline, and is greedy
RECURSIVE SplitBlocks(_)
SplitBlocks(s) ==
    LET n == Len(s)
        EndOf(p) == {q \in (p + 1)..n : s[q] = NL /\ \A r \in (p + 1)..q : s[r] \in WS}
        starts == {p \in 1..n : s[p] = NL /\ EndOf(p) # {}}
        p0 == MinOf(starts)
    IN  IF starts = {} THEN <<s>>
        ELSE <<SubSeq(s, 1, p0 - 1)>> \o SplitBlocks(SubSeq(s, MaxOf(EndOf(p0)) + 1, n))

\* name and contact line from the header section
HeaderCells(d) ==
    LET has == Has(d, K_header) /\ Get(d, K_header) # <<>>
        header_lines == SplitOn(Get(d, K_header), NL)
        name == IF has THEN Strip(StripChars(header_lines[1], {"*"})) ELSE <<>>
        contact_info == IF has
                        THEN SelectSeq([n \in 1..(Len(header_lines) - 1) |-> Strip(header_lines[n + 1])],
                                       LAMBDA info : info # <<>>)
                        ELSE <<>>
    IN  << [kind |-> "name", sec |-> K_header, blk |-> 0, idx |-> 0, src |-> <<>>,
            line |-> name, cells |-> <<name>>],
           [kind |-> "contact", sec |-> K_header, blk |-> 0, idx |-> 0, src |-> <<>>,
            line |-> JoinWith(contact_info, <<" ", "|", " ">>),
            cells |-> <<JoinWith(contact_info, <<" ", "|", " ">>)>>] >>

\* one iteration of `for line in lines` of an item
BodyLineCells(sec, blk, idx, raw) ==
    LET line == Truncate(Strip(raw))
    IN  IF Strip(raw) = <<>> THEN <<>>
        ELSE IF IsBullet(line)
        THEN << [kind |-> "bullet", sec |-> sec, blk |-> blk, idx |-> idx, src |-> raw,
                 line |-> line, cells |-> <<SubSeq(line, 1, 1), Strip(Drop(line, 1))>>] >>
        ELSE << [kind |-> "plain", sec |-> sec, blk |-> blk, idx |-> idx, src |-> raw,
                 line |-> line, cells |-> <<line>>] >>

\* one iteration of `for item in items`
ItemCells(sec, blk, item) ==
    LET item_lines == SplitOn(item, NL)
        first_line == Strip(item_lines[1])
        titled == ~IsBullet(first_line)
        rest == IF titled THEN Tail(item_lines) ELSE item_lines
        off == IF titled THEN 1 ELSE 0
    IN  IF Strip(item) = <<>> THEN <<>>
        ELSE (IF titled
              THEN << [kind |-> "title", sec |-> sec, blk |-> blk, idx |-> 1, src |-> item_lines[1],
                       line |-> first_line, cells |-> <<first_line>>] >>
              ELSE <<>>)
             \o Concat([n \in 1..Len(rest) |-> BodyLineCells(sec, blk, n + off, rest[n])])

\* variant: only the header is skipped
SkipSection_HeaderOnly(e) == e.k = K_header

\* section_name == "header" or not section_content.strip()
SkipSection(e) == e.k = K_header \/ Strip(e.v) = <<>>

\* one iteration of `for section_name, section_content in sections.items()`
SectionCells(e) ==
    LET items == SplitBlocks(e.v)
    IN  IF SkipSection(e) THEN <<>>
        ELSE << [kind |-> "banner", sec |-> e.k, blk |-> 0, idx |-> 0, src |-> <<>>,
                 line |-> Upper(e.k), cells |-> <<<<" ">> \o Upper(e.k)>>] >>
             \o Concat([b \in 1..Len(items) |-> ItemCells(e.k, b, items[b])])

----------------------------------------------------------------------------
(* Input texts *)

MaxLines == 3

MaxBody == 6

L_Blank == <<" ", " ">>

L_Name == <<" ", "A", "n", "n", " ", "L", "e", "e", " ">>

L_Skills == <<"S", "k", "i", "l", "l", "s">>

L_SKILLS == <<"S", "K", "I", "L", "L", "S">>

L_HELLO == <<"H", "E", "L", "L", "O">>

L_ABCD == <<"A", "B", "C", "D">>

L_A_B_C == <<"A", " ", "B", " ", "C">>

L_Experience == <<"*", "*", "E", "x", "p", "e", "r", "i", "e", "n", "c", "e", "*", "*">>

L_Education == <<"*", "*", "E", "d", "u", "c", "a", "t", "i", "o", "n", "*", "*">>

L_Pro == <<"*", "*", "P", "r", "o", "*", "*">>

L_Profile == <<"*", "*", "P", "r", "o", "f", "i", "l", "e", "*", "*">>

L_Prof == <<"*", "*", "P", "r", "o", "f", "*", "*">>

L_WorkExp == <<"*", "*", "W", "o", "r", "k", " ", "E", "x", "p", "e", "r", "i", "e", "n", "c", "e", "*", "*">>

L_HeaderInfo == <<"*", "*", "H", "e", "a", "d", "e", "r", " ", "I", "n", "f", "o", "*", "*">>

L_EmptyBold == <<"*", "*", " ", "*", "*">>

L_Stars == <<"*", "*", "*", "*">>

L_TripleStar == <<"*", "*", "*", "E", "d", "u", "*", "*", "*">>

L_InnerStar == <<"*", "*", "A", "*", "B", "*", "*">>

L_Dashed == <<"-", "-", "-", " ", "S", "k", "i", "l", "l", "s", " ", "-", "-", "-">>

L_EmptyDashed == <<"-", "-", "-", " ", "-", "-", "-">>

L_Dashes == <<"-", "-", "-", "-", "-">>

L_Bullet == <<"-", " ", "l", "e", "d", " ", "t", "e", "a", "m">>

L_Dot == <<DOT, " ", "b", "u", "i", "l", "t", " ", "a", "p", "i">>

L_Job == <<"E", "n", "g", "i", "n", "e", "e", "r", ",", " ", "A", "c", "m", "e">>

L_X == <<"*", "*", "x", "*", "*">>

L_Tab == <<"\t", "M", "a", "i", "l", ":", " ", "a", "@", "b", ".", "c", "\r">>

L_Item3 == <<"2", "0", "1", "9", " ", "-", " ", "2", "0", "2", "1">>

L_Item4 == <<"-", " ", "c", "u", "t", " ", "c", "o", "s", "t", "s">>

L_Item5 == <<"A", "n", "a", "l", "y", "s", "t", ",", " ", "B", "o", "l", "t">>

L_Item6 == <<DOT, " ", "r", "a", "n", " ", "a", "u", "d", "i", "t", "s">>

L_Item7 == <<"I", "n", "t", "e", "r", "n", ",", " ", "C", "o", "g", " ">>

L_Item8 == <<"-", " ", "f", "i", "l", "e", "d", " ", "b", "u", "g", "s">>

L_Degree == <<"B", "S", "c", " ", "M", "a", "t", "h", "s">>

L_Honours == <<"-", " ", "h", "o", "n", "o", "u", "r", "s">>

Rep(c, n) == [m \in 1..n |-> c]

L_Long == Rep("x", max_line_length + 1)

L_LongBullet == <<"-", " ">> \o Rep("y", max_line_length)

L_Full == Rep("z", max_line_length)

CoreLines == {L_Blank, L_Name, L_Bullet, L_SKILLS, L_Pro, L_HeaderInfo}

EdgeLines == {L_Skills, L_HELLO, L_ABCD, L_A_B_C, L_EmptyBold, L_Stars, L_TripleStar, L_InnerStar,
              L_Dashed, L_EmptyDashed, L_Dashes, L_X, L_Dot, L_Tab, L_WorkExp}

LongLines == {L_Long, L_LongBullet, L_Full, L_Job, L_Bullet}

BodyPool == <<L_Job, L_Bullet, L_Item3, L_Item4, L_Item5, L_Item6, L_Item7, L_Item8>>

TailPool == <<L_Degree, L_Honours>>

HeadingPairs == {<<L_Experience, L_Education>>, <<L_Pro, L_Profile>>, <<L_Profile, L_Pro>>,
                 <<L_Pro, L_Prof>>, <<L_WorkExp, L_Education>>}

SeqsUpTo(S, n) == UNION {[1..m -> S] : m \in 0..n}

GenericInputs == SeqsUpTo(CoreLines, MaxLines)

EdgeInputs ==
    UNION {{<<l>>, <<L_Name, l>>, <<l, L_Name>>, <<L_Name, L_SKILLS, l>>} : l \in EdgeLines}

LongInputs == {<<L_Name, L_SKILLS>> \o ls : ls \in SeqsUpTo(LongLines, 2) \ {<<>>}}

\* [name] heading, body lines, a blank line, heading, body lines
TwoSectionInputs ==
    {pre \o <<hp[1]>> \o SubSeq(BodyPool, from, from + nb - 1) \o <<L_Blank, hp[2]>> \o SubSeq(TailPool, 1, nt) :
        pre \in {<<>>, <<L_Name>>}, hp \in HeadingPairs, from \in 1..2, nb \in 1..MaxBody, nt \in 1..2}

InputLines == GenericInputs \cup EdgeInputs \cup LongInputs \cup TwoSectionInputs

Inputs == {JoinNL(ls) : ls \in InputLines}

----------------------------------------------------------------------------
(* The program *)

Init ==
    /\ content \in Inputs
    /\ lines = <<>>
    /\ i = 0
    /\ sections = <<>>
    /\ current_section = <<>>
    /\ ci = 0
    /\ discovered = <<>>
    /\ si = 0
    /\ page = <<>>
    /\ pc = "call"

\* lines = content.split("\n"); sections = {"header": []}
Begin ==
    /\ pc = "call"
    /\ lines' = SplitOn(content, NL)
    /\ sections' = <<[k |-> K_header, v |-> <<>>, ord |-> 1]>>
    /\ current_section' = K_header
    /\ i' = 1
    /\ pc' = "scan"
    /\ UNCHANGED <<content, ci, discovered, si, page>>

\* variant: a blank line is not skipped
ScanLine_KeepBlank ==
    /\ pc = "scan"
    /\ i <= Len(lines)
    /\ LET line == Strip(lines[i])
           h == SectionHeader(line)
       IN  IF h.hdr /\ h.name # <<>>
           THEN /\ current_section' = h.name
                /\ sections' = Activate(sections, h.name)
                /\ UNCHANGED pc
           ELSE IF Has(sections, current_section)
           THEN /\ sections' = AppendLine(sections, current_section, line)
                /\ UNCHANGED <<current_section, pc>>
           ELSE /\ pc' = "KeyError"
                /\ UNCHANGED <<sections, current_section>>
    /\ i' = i + 1
    /\ UNCHANGED <<content, lines, ci, discovered, si, page>>

\* one iteration of `for line in lines`; a missing key raises KeyError
ScanLine ==
    /\ pc = "scan"
    /\ i <= Len(lines)
    /\ LET line == Strip(lines[i])
           h == SectionHeader(line)
       IN  IF line = <<>>
           THEN UNCHANGED <<sections, current_section, pc>>
           ELSE IF h.hdr /\ h.name # <<>>
           THEN /\ current_section' = h.name
                /\ sections' = Activate(sections, h.name)
                /\ UNCHANGED pc
           ELSE IF Has(sections, current_section)
           THEN /\ sections' = AppendLine(sections, current_section, line)
                /\ UNCHANGED <<current_section, pc>>
           ELSE /\ pc' = "KeyError"
                /\ UNCHANGED <<sections, current_section>>
    /\ i' = i + 1
    /\ UNCHANGED <<content, lines, ci, discovered, si, page>>

\* the lists become strings
JoinLists ==
    /\ pc = "scan"
    /\ i > Len(lines)
    /\ sections' = JoinAll(sections)
    /\ pc' = "fallback"
    /\ UNCHANGED <<content, lines, i, current_section, ci, discovered, si, page>>

HeaderBackfill ==
    /\ pc = "fallback"
    /\ sections' = HeaderFallback(sections)
    /\ pc' = "cleanup"
    /\ UNCHANGED <<content, lines, i, current_section, ci, discovered, si, page>>

\* discovered records the mapping as the clean-up leaves it
CleanUp ==
    /\ pc = "cleanup"
    /\ sections' = CleanUpEmpty(sections)
    /\ discovered' = CleanUpEmpty(sections)
    /\ ci' = 1
    /\ pc' = "ensure"
    /\ UNCHANGED <<content, lines, i, current_section, si, page>>

\* one iteration of `for section in common_sections`; after the last one
\* parse_cv_content returns and create_cv_pdf goes on
Ensure ==
    /\ pc = "ensure"
    /\ ci <= Len(common_sections)
    /\ sections' = EnsureSection(sections, common_sections[ci])
    /\ ci' = ci + 1
    /\ pc' = IF ci = Len(common_sections) THEN "header_block" ELSE "ensure"
    /\ UNCHANGED <<content, lines, i, current_section, discovered, si, page>>

HeaderBlock ==
    /\ pc = "header_block"
    /\ page' = page \o HeaderCells(sections)
    /\ si' = 1
    /\ pc' = "body"
    /\ UNCHANGED <<content, lines, i, sections, current_section, ci, discovered>>

RenderSection ==
    /\ pc = "body"
    /\ si <= Len(sections)
    /\ page' = page \o SectionCells(sections[si])
    /\ si' = si + 1
    /\ UNCHANGED <<content, lines, i, sections, current_section, ci, discovered, pc>>

Output ==
    /\ pc = "body"
    /\ si > Len(sections)
    /\ pc' = "done"
    /\ UNCHANGED <<content, lines, i, sections, current_section, ci, discovered, si, page>>

Next ==
    \/ Begin
    \/ ScanLine
    \/ JoinLists
    \/ HeaderBackfill
    \/ CleanUp
    \/ Ensure
    \/ HeaderBlock
    \/ RenderSection
    \/ Output

Spec == Init /\ [][Next]_vars

\* parse_cv_content has returned
Parsed == pc \in {"header_block", "body", "done"}

----------------------------------------------------------------------------
(* Properties *)

Canonical == {common_sections[c] : c \in 1..Len(common_sections)}

IsStr(v) == \A n \in 1..Len(v) : v[n] \in STRING

\* the family "**Experience**", body lines, blank line, "**Education**", body lines
ExpBody(from, nb) == SubSeq(BodyPool, from, from + nb - 1)

EduBody(nt) == SubSeq(TailPool, 1, nt)

ExpEduInput(from, nb, nt) ==
    JoinNL(<<L_Experience>> \o ExpBody(from, nb) \o <<L_Blank, L_Education>> \o EduBody(nt))

Trimmed(list) == [n \in 1..Len(list) |-> Strip(list[n])]

\* C1: the mapping returned by parse_cv_content holds each of the six
\* vocabulary keys, mapped to a string, and while the vocabulary loop runs
\* every key an earlier iteration put in place is still in the mapping.
C1_CanonicalKeysPresent ==
    /\ pc = "ensure" => \A c \in 1..(ci - 1) : Has(sections, common_sections[c])
    /\ Parsed => \A c \in 1..Len(common_sections) :
                     /\ Has(sections, common_sections[c])
                     /\ IsStr(Get(sections, common_sections[c]))

\* a key was renamed to a vocabulary key and a placeholder was added
C1_Witness ==
    /\ pc = "done"
    /\ \E n \in 1..Len(discovered) : ~Has(sections, discovered[n].k)
    /\ \E n \in 1..Len(sections) : sections[n].v = <<>>

\* C2: parse_cv_content reaches no error state: no line is appended to a
\* missing key, the active section is a key of the mapping during the whole
\* scan, and the program is at a position from which it goes on (the
\* vocabulary loop is the only step with a guard that can block).
C2_NoErrorState ==
    /\ pc # "KeyError"
    /\ pc \in {"call", "scan", "fallback", "cleanup", "ensure", "header_block", "body", "done"}
    /\ pc = "scan" => Has(sections, current_section)
    /\ pc = "ensure" => ci \in 1..Len(common_sections)

\* a body line was appended under a heading met in the scan, after a heading
\* with an empty captured text or a repeated heading or a blank line
C2_Witness ==
    /\ pc = "scan"
    /\ i > Len(lines)
    /\ \E n \in 2..Len(sections) : sections[n].v # <<>>
    /\ \E n \in 1..Len(lines) : Strip(lines[n]) = <<>>

\* C3 as stated: for "**Experience**", body lines, a blank line,
\* "**Education**", body lines, key experience holds exactly the first body
\* lines and key education exactly the second ones.
C3_Original ==
    \A from \in 1..2, nb \in 1..MaxBody, nt \in 1..2 :
        (Parsed /\ content = ExpEduInput(from, nb, nt)) =>
            /\ Get(sections, K_experience) = JoinNL(ExpBody(from, nb))
            /\ Get(sections, K_education) = JoinNL(EduBody(nt))

\* C3 amended: the first 5 body lines after "**Experience**" go to key
\* header, key experience holds the remaining ones, key education holds the
\* body lines after "**Education**", each trimmed and in input order, and
\* every other key has an empty body.
C3_HeaderTakesFirstFive ==
    \A from \in 1..2, nb \in 1..MaxBody, nt \in 1..2 :
        (Parsed /\ content = ExpEduInput(from, nb, nt)) =>
            /\ Get(sections, K_header) = JoinNL(Trimmed(Take(ExpBody(from, nb), 5)))
            /\ Get(sections, K_experience) = JoinNL(Trimmed(Drop(ExpBody(from, nb), 5)))
            /\ Get(sections, K_education) = JoinNL(Trimmed(EduBody(nt)))
            /\ \A n \in 1..Len(sections) :
                   sections[n].k \notin {K_header, K_experience, K_education} => sections[n].v = <<>>

\* more than 5 body lines follow "**Experience**"
C3_Witness ==
    /\ pc = "done"
    /\ \E from \in 1..2, nb \in 6..MaxBody, nt \in 1..2 : content = ExpEduInput(from, nb, nt)
    /\ Get(sections, K_experience) # <<>>

\* C4: in the returned mapping the non-empty sections come in the order in
\* which their headings were first met, and no empty placeholder comes
\* before a non-empty section.
C4_EncounterOrder ==
    Parsed => \A p \in 1..Len(sections), q \in 1..Len(sections) :
                  (p < q /\ sections[q].v # <<>>) =>
                      /\ sections[p].v # <<>>
                      /\ sections[p].ord < sections[q].ord

\* C5: every section that is non-empty after the clean-up is in the returned
\* mapping with the same body, under its own key or under the vocabulary
\* key it is a variant of.
C5_BodiesKept ==
    Parsed => \A n \in 1..Len(discovered) :
                  \E m \in 1..Len(sections) :
                      /\ sections[m].v = discovered[n].v
                      /\ \/ sections[m].k = discovered[n].k
                         \/ /\ sections[m].k \in Canonical
                            /\ \/ Contains(discovered[n].k, sections[m].k)
                               \/ Contains(sections[m].k, discovered[n].k)

\* C6: no key of the returned mapping outside the vocabulary contains a
\* vocabulary key or is contained in one.
C6_AllVariantsFolded ==
    Parsed => \A n \in 1..Len(sections) :
                  sections[n].k \notin Canonical =>
                      \A c \in Canonical :
                          ~Contains(sections[n].k, c) /\ ~Contains(c, sections[n].k)

ShoutCase(t) == Len(t) >= 5 /\ \A n \in 1..Len(t) : IsUpper(t[n]) \/ t[n] = " "

MixedCaseBody(t) ==
    /\ \E n \in 1..Len(t) : IsLower(t[n])
    /\ ~(StartsWith(t, <<"*", "*">>) /\ EndsWith(t, <<"*", "*">>))
    /\ ~(StartsWith(t, <<"-", "-", "-">>) /\ EndsWith(t, <<"-", "-", "-">>))

\* C7: a scan step on a trimmed line of 5 or more uppercase letters and
\* spaces makes its lower-cased text the active section and appends it to no
\* body; a scan step on a line with a lowercase letter and neither ** nor
\* --- around it leaves the active section and appends the trimmed line to
\* the active section's body.
C7_ShoutCaseHeading ==
    [][(pc = "scan" /\ i <= Len(lines)) =>
        LET t == Strip(lines[i])
        IN  /\ ShoutCase(t) =>
                /\ current_section' = Lower(t)
                /\ Has(sections', Lower(t))
                /\ \A n \in 1..Len(sections) : sections'[n] = sections[n]
                /\ \A n \in (Len(sections) + 1)..Len(sections') : sections'[n].v = <<>>
            /\ MixedCaseBody(t) =>
                /\ current_section' = current_section
                /\ Keys(sections') = Keys(sections)
                /\ \A n \in 1..Len(sections) :
                       sections'[n].v = IF sections[n].k = current_section
                                        THEN Append(sections[n].v, t)
                                        ELSE sections[n].v]_vars

\* "HELLO" or "SKILLS" opened a section and "Skills" was appended to it
C7_Witness ==
    /\ pc = "scan"
    /\ i > 2
    /\ ShoutCase(Strip(lines[i - 2]))
    /\ Strip(lines[i - 1]) = L_Skills
    /\ current_section = Lower(Strip(lines[i - 2]))
    /\ Get(sections, current_section) = <<L_Skills>>

BodyKinds == {"title", "bullet", "plain"}

\* C8: every body line put on the page is drawn as its first 120 characters
\* and "..." when it is longer than 120 characters, and unchanged otherwise,
\* whatever its kind.
C8_LongLinesTruncated ==
    \A n \in 1..Len(page) :
        page[n].kind \in BodyKinds =>
            page[n].line = IF Len(Strip(page[n].src)) > 120
                           THEN SubSeq(Strip(page[n].src), 1, 120) \o <<".", ".", ".">>
                           ELSE Strip(page[n].src)

Marked(t) == t # <<>> /\ t[1] \in {"-", DOT}

\* the kind the rule gives line n of a block
KindOf(block_lines, n) ==
    IF n = 1 /\ ~Marked(Strip(block_lines[1])) THEN "title"
    ELSE IF Marked(Strip(block_lines[n])) THEN "bullet"
    ELSE "plain"

\* the cells of the page for block b of section key
CellsOf(key, b) ==
    SelectSeq(page, LAMBDA c : c.kind \in BodyKinds /\ c.sec = key /\ c.blk = b)

\* C9: for every paragraph block of a rendered section, the lines of the
\* block are drawn once each and in order; the first line is a title exactly
\* when it does not start with "-" or the round bullet, and every other
\* line (and a first line that starts with a marker) is a bullet line when
\* it starts with a marker and a plain line otherwise.
C9_BlockRule ==
    \A s \in 1..Len(sections) :
        (Parsed /\ (pc = "done" \/ s < si) /\ sections[s].k # K_header /\ sections[s].v # <<>>) =>
            LET blocks == SplitBlocks(sections[s].v)
            IN  \A b \in 1..Len(blocks) :
                    LET bl == SplitOn(blocks[b], NL)
                        cells == CellsOf(sections[s].k, b)
                    IN  /\ Len(cells) = Len(bl)
                        /\ \A n \in 1..Len(bl) :
                               /\ cells[n].idx = n
                               /\ cells[n].src = bl[n]
                               /\ cells[n].kind = KindOf(bl, n)

\* one section starts with a bullet line and has no title, another has a
\* title followed by a bullet line
C9_Witness ==
    /\ pc = "done"
    /\ \E n \in 1..Len(page) : page[n].kind = "bullet" /\ page[n].idx = 1
    /\ \E n \in 1..(Len(page) - 1) :
           /\ page[n].kind = "title"
           /\ page[n + 1].kind = "bullet"
           /\ page[n + 1].sec = page[n].sec

Banners == SelectSeq(page, LAMBDA c : c.kind = "banner")

\* C10: rendering the empty text ends with no banner on the page, and in
\* general the banners on the page are, in order, those of the keys of the
\* mapping other than header whose body is not empty.
C10_BannersOfNonEmpty ==
    pc = "done" =>
        /\ content = <<>> => Banners = <<>>
        /\ [n \in 1..Len(Banners) |-> Banners[n].sec]
             = Keys(SelectSeq(sections, LAMBDA e : e.k # K_header /\ e.v # <<>>))
        /\ \A n \in 1..Len(Banners) : Banners[n].cells = <<<<" ">> \o Upper(Banners[n].sec)>>

\* the empty text was rendered: six placeholders and no banner
C10_Witness ==
    /\ pc = "done"
    /\ content = <<>>
    /\ Len(sections) = 6
    /\ \A n \in 1..Len(sections) : sections[n].v = <<>>

\* the entries of d with a body
WithBody(d) == {n \in 1..Len(d) : d[n].v # <<>>}

\* the entry with a body whose heading was met first
FirstWithBody(d) == CHOOSE n \in WithBody(d) : \A m \in WithBody(d) : d[n].ord <= d[m].ord

\* C11: the header fallback step, when header has no body and another
\* section has one, makes the header's body the first 5 lines (all if fewer)
\* of the first section met that has a body, leaves that section the lines
\* after them, and changes no other body and no key; when header has a body
\* the step changes nothing in the mapping.
C11_HeaderFallbackFrame ==
    [][pc = "fallback" =>
        /\ Keys(sections') = Keys(sections)
        /\ Get(sections, K_header) # <<>> => sections' = sections
        /\ (Get(sections, K_header) = <<>> /\ WithBody(sections) # {}) =>
            LET src == FirstWithBody(sections)
                nlines == Len(SplitOn(sections[src].v, NL))
                hv == Get(sections', K_header)
                sv == sections'[src].v
            IN  /\ Len(SplitOn(hv, NL)) = IF nlines < 5 THEN nlines ELSE 5
                /\ sv = <<>> <=> nlines <= 5
                /\ sections[src].v = IF sv = <<>> THEN hv ELSE hv \o <<NL>> \o sv
                /\ \A n \in 1..Len(sections) :
                       (n # src /\ sections[n].k # K_header) => sections'[n].v = sections[n].v]_vars

\* the fallback has moved 5 of the 6 or more lines of the first section to
\* the header, and a later section has its body
C11_Witness ==
    /\ pc = "cleanup"
    /\ \E from \in 1..2, nb \in 6..MaxBody, nt \in 1..2 :
           /\ content = ExpEduInput(from, nb, nt)
           /\ Get(sections, K_header) = JoinNL(Trimmed(Take(ExpBody(from, nb), 5)))
    /\ Get(sections, K_education) # <<>>

Titles(key) == SelectSeq(page, LAMBDA c : c.kind = "title" /\ c.sec = key)

\* C12: every body of the returned mapping is empty or made of lines that
\* are non-empty and trimmed, so it has no blank line; the blank-line split
\* of the renderer then gives one paragraph block for a section with a body,
\* and at most one line of a section, its first, is drawn as a title.
C12_OneBlockPerSection ==
    Parsed => \A s \in 1..Len(sections) :
                  LET body == sections[s].v
                      body_lines == SplitOn(body, NL)
                  IN  /\ body # <<>> =>
                          /\ \A n \in 1..Len(body_lines) :
                                 /\ body_lines[n] # <<>>
                                 /\ body_lines[n][1] \notin WS
                                 /\ body_lines[n][Len(body_lines[n])] \notin WS
                          /\ SplitBlocks(body) = <<body>>
                      /\ Len(Titles(sections[s].k)) <= 1
                      /\ \A n \in 1..Len(Titles(sections[s].k)) :
                             /\ Titles(sections[s].k)[n].blk = 1
                             /\ Titles(sections[s].k)[n].idx = 1
                             /\ Titles(sections[s].k)[n].line = body_lines[1]

\* a section of three or more lines was drawn: its first line as the title,
\* a later line without a bullet marker as a plain line; blank lines were
\* in the input
C12_Witness ==
    /\ pc = "done"
    /\ \E n \in 1..Len(lines) : Strip(lines[n]) = <<>>
    /\ \E n \in 1..Len(page), m \in 1..Len(page) :
           /\ n < m
           /\ page[n].kind = "title"
           /\ page[m].kind = "plain"
           /\ page[m].sec = page[n].sec
           /\ page[m].idx >= 3

====
